---- MODULE Spec2Model ----
(***************************************************************************)
(* Port discovery of the FastAPI sidecar (src/sidecar/port_discovery.py).  *)
(*                                                                         *)
(* The allocator (class PortDiscovery) holds start_port and end_port.  Its *)
(* operations query live OS state: the ports other processes hold          *)
(* (portState), the connection table psutil.net_connections() returns      *)
(* (connections) and the process table psutil.Process() reads (processes). *)
(* find_available_port is modelled probe by probe (pc); the other          *)
(* operations are single steps.                                            *)
(*                                                                         *)
(* Python's None is the empty sequence, a present value v is <<v>>.        *)
(***************************************************************************)
EXTENDS Integers, Sequences, FiniteSets, TLC

VARIABLES
    start_port,     \* self.start_port
    end_port,       \* self.end_port
    portState,      \* OS: what a bind of each modelled port meets
    pc,             \* position of the call in progress
    op,             \* operation of the call in progress
    preferred_port, \* find_available_port's argument
    port,           \* is_port_available's / get_process_using_port's argument
    ports,          \* find_available_port: the shuffled list
    i,              \* find_available_port: index of the next port of ports
    probes,         \* is_port_available calls made by the call, in order
    connections,    \* what psutil.net_connections() returned to the call
    enum_raises,    \* whether psutil.net_connections() raised
    processes,      \* what psutil.Process(pid) and its getters meet, per pid
    result,         \* the call's return value
    outcome,        \* "return" | "raise"
    raised,         \* the exception that left the call ("none" if none)
    log_error,      \* whether the call reached a logger.error
    sockets,        \* the sockets the allocator opened that are still open
    peer,           \* a second call of find_available_port, by another caller
    main_pc,        \* main(): position of the process
    port_file,      \* sidecar_port.txt: None if absent, else its content
    server_port,    \* the port uvicorn.run was given (None before the run)
    server_end,     \* how uvicorn.run ended ("none" while it has not)
    exit_code,      \* the process's exit code (None while it runs)
    app_state,      \* main.py's app_state
    request,        \* the HTTP request passing through track_requests
    shutdown,       \* the POST /shutdown request and its background task
    signal_sent,    \* whether os.kill(os.getpid(), SIGTERM) was called
    health_check    \* the GET /health/database request in progress

\* the allocator, the call in progress and the OS state it queries
allocVars == <<start_port, end_port, portState, pc, op, preferred_port, port,
               ports, i, probes, connections, enum_raises, processes, result,
               outcome, raised, log_error, sockets>>

\* the state the allocator's operations never touch
\* the process started by main()
mainVars == <<main_pc, port_file, server_port, server_end, exit_code>>

\* the state of the FastAPI application
appVars == <<app_state, request, shutdown, signal_sent, health_check>>

otherVars == <<peer, mainVars, appVars>>

vars == <<allocVars, otherVars>>

----------------------------------------------------------------------------
(* Bounds of the model *)

\* number of valid port numbers modelled, the highest ones: the window
\* PortLimit - NumValid + 1 .. PortLimit + 1 holds them and one invalid number
NumValid == 3

\* longest connection table psutil.net_connections() returns
MaxConns == 2

\* number of HTTP requests the application serves
MaxRequests == 3

\* longest shutdown delay asked for, in seconds
MaxDelay == 2

----------------------------------------------------------------------------
(* Values *)

None == <<>>
Some(v) == <<v>>

\* socket.bind accepts the port numbers 0..65535 and raises OverflowError
\* on any other integer
PortLimit == 2^16 - 1

ValidPorts == (PortLimit - NumValid + 1)..PortLimit
PortArgs == ValidPorts \cup {PortLimit + 1}
PreferredArgs == {None, Some(0)} \cup {Some(p) : p \in PortArgs}

Pids == {1234, 5678}

\* the local ports that occur in the modelled connection tables
ConnPorts == {PortLimit - 2, PortLimit - 1, PortLimit}

\* a connection entry: laddr is (ip, port), or the empty tuple psutil gives
\* a socket with no local port
Conns == [laddr : {None} \cup {Some(p) : p \in ConnPorts}, pid : Pids]

RECURSIVE SeqsUpTo(_, _)
SeqsUpTo(S, n) ==
    IF n = 0 THEN {<<>>}
    ELSE LET shorter == SeqsUpTo(S, n - 1)
         IN shorter \cup {Append(s, x) : s \in {t \in shorter : Len(t) = n - 1}, x \in S}

ConnTables == SeqsUpTo(Conns, MaxConns)

\* what resolving a pid meets: the process, or an exception
ProcessStates == {"ok", "NoSuchProcess", "AccessDenied", "OSError"}

\* the facts psutil reads of a process that can be resolved
ProcessInfo(pid) ==
    IF pid = 1234
    THEN [name |-> "test_process", cmdline |-> <<"python", "test.py">>, status |-> "running"]
    ELSE [name |-> "other_process", cmdline |-> <<"sh">>, status |-> "sleeping"]

----------------------------------------------------------------------------
(* Exceptions: Python's class hierarchy and except clauses *)

Mro(exc) ==
    CASE exc = "OSError"         -> {"OSError", "Exception"}
      [] exc = "PermissionError" -> {"PermissionError", "OSError", "Exception"}
      [] exc = "OverflowError"   -> {"OverflowError", "ArithmeticError", "Exception"}
      [] exc = "AttributeError"  -> {"AttributeError", "Exception"}
      [] exc = "NoSuchProcess"   -> {"NoSuchProcess", "psutil.Error", "Exception"}
      [] exc = "AccessDenied"    -> {"AccessDenied", "psutil.Error", "Exception"}
      [] exc = "FileNotFoundError" -> {"FileNotFoundError", "OSError", "Exception"}
      [] exc = "RuntimeError"    -> {"RuntimeError", "Exception"}
      [] exc = "TypeError"       -> {"TypeError", "Exception"}
      [] exc = "KeyError"        -> {"KeyError", "LookupError", "Exception"}
      [] exc = "HTTPException"   -> {"HTTPException", "Exception"}
      [] exc = "KeyboardInterrupt" -> {"KeyboardInterrupt", "BaseException"}
      [] exc = "SystemExit"      -> {"SystemExit", "BaseException"}
      [] OTHER                   -> {}

Catches(classes, exc) == Mro(exc) \cap classes # {}

\* except (socket.error, OSError): socket.error is OSError
SocketHandler == {"OSError"}

\* the handler with AccessDenied forgotten
ProcessHandler_NoAccessDenied == {"NoSuchProcess"}

\* except (psutil.NoSuchProcess, psutil.AccessDenied)
ProcessHandler == {"NoSuchProcess", "AccessDenied"}

\* the handler narrowed to psutil's own errors
EnumerationHandler_PsutilOnly == {"psutil.Error"}

\* except Exception
EnumerationHandler == {"Exception"}

----------------------------------------------------------------------------
(* is_port_available *)

\* sock.bind((host, port)): "ok", or the exception it raises
Bind(p, st) ==
    IF p \notin 0..PortLimit THEN "OverflowError"
    ELSE IF p = 0 THEN "ok"            \* the OS picks an ephemeral port
    ELSE IF st[p] = "free" THEN "ok"
    ELSE IF st[p] = "in_use" THEN "OSError"
    ELSE "PermissionError"

\* the whole of is_port_available: its return value, or the exception
\* that leaves it
IsPortAvailable(p, st) ==
    LET b == Bind(p, st)
    IN IF b = "ok" THEN [ret |-> TRUE, exc |-> "none"]
       ELSE IF Catches(SocketHandler, b) THEN [ret |-> FALSE, exc |-> "none"]
       ELSE [ret |-> FALSE, exc |-> b]

ProbeEntry(p, kind, r) ==
    [port |-> p, kind |-> kind,
     res |-> IF r.exc # "none" THEN r.exc ELSE IF r.ret THEN "True" ELSE "False"]

\* socket.socket(AF_INET, SOCK_STREAM) and the bind of it: one more open
\* socket, bound to p if the bind succeeded
SocketOpen(socks, p, b) == Append(socks, [port |-> p, bound |-> b = "ok"])

\* the socket closed after a successful bind only: an exception leaves it open
WithExit_LeakOnError(socks, b) ==
    IF b = "ok" THEN SubSeq(socks, 1, Len(socks) - 1) ELSE socks

\* leaving "with socket.socket(...) as sock": the socket is closed, whether
\* the block returned or raised b
WithExit(socks, b) == SubSeq(socks, 1, Len(socks) - 1)

\* the open sockets after is_port_available(p)
SocketsAfterProbe(socks, p, st) ==
    WithExit(SocketOpen(socks, p, Bind(p, st)), Bind(p, st))

----------------------------------------------------------------------------
(* Construction and the state between calls *)

\* main() has not discovered a port yet
MainInit ==
    /\ main_pc = "start"
    /\ port_file = None
    /\ server_port = None
    /\ server_end = "none"
    /\ exit_code = None

\* no request is passing through the middleware
NoRequest == [stage |-> "none", status |-> None, exc |-> "none", errors_before |-> 0]

\* no shutdown was asked for
NoShutdown ==
    [stage |-> "none", delay_seconds |-> None, response |-> None, exc |-> "none",
     task |-> "none", elapsed |-> 0]

\* no GET /health/database is in progress
NoHealthCheck ==
    [stage |-> "none", pos |-> 1, di_used |-> 0, len |-> 0, connection_name |-> "",
     health_checks |-> <<>>, interleaved |-> FALSE, outcome |-> "none",
     raised |-> "none", summary |-> None]

\* app_state as the module defines it (start_time left out)
AppInit ==
    /\ app_state = [port |-> None, shutdown_requested |-> FALSE, request_count |-> 0,
                    error_count |-> 0, database_connections |-> <<>>,
                    last_database_check |-> None]
    /\ request = NoRequest
    /\ shutdown = NoShutdown
    /\ signal_sent = FALSE
    /\ health_check = NoHealthCheck

\* the second caller has no call in progress
PeerIdle ==
    [pc |-> "idle", preferred_port |-> None, ports |-> <<>>, i |-> 1,
     result |-> None, outcome |-> "none", raised |-> "none"]

\* no call in progress
Idle ==
    /\ pc = "idle"
    /\ op = "none"
    /\ preferred_port = None
    /\ port = 0
    /\ ports = <<>>
    /\ i = 1
    /\ probes = <<>>
    /\ connections = <<>>
    /\ enum_raises = FALSE
    /\ processes = [pid \in Pids |-> "ok"]
    /\ result = None
    /\ outcome = "none"
    /\ raised = "none"
    /\ log_error = FALSE

\* PortDiscovery(start_port, end_port): stores both arguments as given
Init ==
    /\ \E s \in PortArgs, e \in PortArgs :
          /\ start_port = s
          /\ end_port = e
    /\ portState = [p \in ValidPorts |-> "free"]
    /\ sockets = <<>>
    /\ Idle
    /\ peer = PeerIdle
    /\ MainInit
    /\ AppInit

\* the caller takes the call's result: the next state is Idle
ReturnToCaller ==
    /\ pc = "done"
    /\ pc' = "idle"
    /\ op' = "none"
    /\ preferred_port' = None
    /\ port' = 0
    /\ ports' = <<>>
    /\ i' = 1
    /\ probes' = <<>>
    /\ connections' = <<>>
    /\ enum_raises' = FALSE
    /\ processes' = [pid \in Pids |-> "ok"]
    /\ result' = None
    /\ outcome' = "none"
    /\ raised' = "none"
    /\ log_error' = FALSE
    /\ UNCHANGED otherVars
    /\ UNCHANGED <<sockets, start_port, end_port, portState>>

\* another process binds or releases a port, or a port becomes forbidden,
\* between two calls
EnvChangePort ==
    /\ pc = "idle"
    /\ \E p \in ValidPorts, s \in {"free", "in_use", "denied"} :
          /\ portState[p] # s
          /\ portState' = [portState EXCEPT ![p] = s]
    /\ UNCHANGED otherVars
    /\ UNCHANGED <<sockets, start_port, end_port, pc, op, preferred_port, port, ports, i,
                   probes, connections, enum_raises, processes, result, outcome,
                   raised, log_error>>

----------------------------------------------------------------------------
(* is_port_available, called directly *)

CallIsPortAvailable ==
    /\ pc = "idle"
    /\ \E p \in PortArgs \cup {0} :
          LET r == IsPortAvailable(p, portState)
          IN /\ port' = p
             /\ probes' = <<ProbeEntry(p, "direct", r)>>
             /\ result' = IF r.exc = "none" THEN Some(r.ret) ELSE None
             /\ outcome' = IF r.exc = "none" THEN "return" ELSE "raise"
             /\ raised' = r.exc
             /\ sockets' = SocketsAfterProbe(sockets, p, portState)
    /\ op' = "is_port_available"
    /\ pc' = "done"
    /\ UNCHANGED otherVars
    /\ UNCHANGED <<start_port, end_port, portState, preferred_port, ports, i,
                   connections, enum_raises, processes, log_error>>

\* the caller probes the same port once more, straight after the first probe
CallIsPortAvailableAgain ==
    /\ pc = "done"
    /\ op = "is_port_available"
    /\ Len(probes) = 1
    /\ LET r == IsPortAvailable(port, portState)
       IN /\ probes' = Append(probes, ProbeEntry(port, "direct", r))
          /\ result' = IF r.exc = "none" THEN Some(r.ret) ELSE None
          /\ outcome' = IF r.exc = "none" THEN "return" ELSE "raise"
          /\ raised' = r.exc
          /\ sockets' = SocketsAfterProbe(sockets, port, portState)
    /\ UNCHANGED otherVars
    /\ UNCHANGED <<start_port, end_port, portState, pc, op, preferred_port, port,
                   ports, i, connections, enum_raises, processes, log_error>>

----------------------------------------------------------------------------
(* find_available_port *)

\* list(range(self.start_port, self.end_port + 1))
RangeList(s, e) == [k \in 1..(IF e >= s THEN e - s + 1 ELSE 0) |-> s + k - 1]

\* the shuffle left out: the list stays in ascending order
Shuffles_Ascending(seq) == {seq}

\* random.shuffle(ports): every ordering of the list
Shuffles(seq) ==
    {[k \in 1..Len(seq) |-> seq[f[k]]] : f \in Permutations(1..Len(seq))}

\* Python's truth value of preferred_port: None and 0 are false
Truthy(pref) == pref # None /\ pref[1] # 0

CallFindAvailablePort ==
    /\ pc = "idle"
    /\ \E pref \in PreferredArgs : preferred_port' = pref
    /\ op' = "find_available_port"
    /\ pc' = "preferred"
    /\ UNCHANGED otherVars
    /\ UNCHANGED <<sockets, start_port, end_port, portState, port, ports, i, probes,
                   connections, enum_raises, processes, result, outcome, raised,
                   log_error>>

\* TryPreferred with the early return lost: the preferred port is probed and
\* the range is scanned whatever the probe said
TryPreferred_NoFastPath ==
    /\ pc = "preferred"
    /\ IF ~Truthy(preferred_port)
       THEN UNCHANGED <<probes, sockets>>
       ELSE /\ probes' = Append(probes,
                   ProbeEntry(preferred_port[1], "preferred",
                              IsPortAvailable(preferred_port[1], portState)))
            /\ sockets' = SocketsAfterProbe(sockets, preferred_port[1], portState)
    /\ pc' = "shuffle"
    /\ UNCHANGED otherVars
    /\ UNCHANGED <<start_port, end_port, portState, op, preferred_port, port,
                   ports, i, connections, enum_raises, processes, result,
                   outcome, raised, log_error>>

\* if preferred_port and self.is_port_available(preferred_port): return it
TryPreferred ==
    /\ pc = "preferred"
    /\ IF ~Truthy(preferred_port)
       THEN /\ pc' = "shuffle"
            /\ UNCHANGED <<probes, sockets, result, outcome, raised>>
       ELSE LET p == preferred_port[1]
                r == IsPortAvailable(p, portState)
            IN /\ probes' = Append(probes, ProbeEntry(p, "preferred", r))
               /\ sockets' = SocketsAfterProbe(sockets, p, portState)
               /\ IF r.exc # "none"
                  THEN /\ pc' = "done"
                       /\ outcome' = "raise"
                       /\ raised' = r.exc
                       /\ UNCHANGED result
                  ELSE IF r.ret
                  THEN /\ pc' = "done"
                       /\ outcome' = "return"
                       /\ result' = Some(p)
                       /\ UNCHANGED raised
                  ELSE /\ pc' = "shuffle"
                       /\ UNCHANGED <<result, outcome, raised>>
    /\ UNCHANGED otherVars
    /\ UNCHANGED <<start_port, end_port, portState, op, preferred_port, port,
                   ports, i, connections, enum_raises, processes, log_error>>

\* ShufflePorts with an inverted range put in order on the allocator first
ShufflePorts_SwapsInverted ==
    /\ pc = "shuffle"
    /\ start_port' = (IF start_port > end_port THEN end_port ELSE start_port)
    /\ end_port' = (IF start_port > end_port THEN start_port ELSE end_port)
    /\ ports' \in Shuffles(RangeList(start_port', end_port'))
    /\ i' = 1
    /\ pc' = "scan"
    /\ UNCHANGED otherVars
    /\ UNCHANGED <<sockets, portState, op, preferred_port, port, probes,
                   connections, enum_raises, processes, result, outcome, raised,
                   log_error>>

\* ports = list(range(...)); random.shuffle(ports)
ShufflePorts ==
    /\ pc = "shuffle"
    /\ ports' \in Shuffles(RangeList(start_port, end_port))
    /\ i' = 1
    /\ pc' = "scan"
    /\ UNCHANGED otherVars
    /\ UNCHANGED <<sockets, start_port, end_port, portState, op, preferred_port, port,
                   probes, connections, enum_raises, processes, result, outcome,
                   raised, log_error>>

\* one turn of "for port in ports", or the end of the loop: return None
ScanStep ==
    /\ pc = "scan"
    /\ IF i > Len(ports)
       THEN /\ pc' = "done"
            /\ outcome' = "return"
            /\ result' = None
            /\ log_error' = TRUE
            /\ UNCHANGED <<i, probes, sockets, raised>>
       ELSE LET p == ports[i]
                r == IsPortAvailable(p, portState)
            IN /\ probes' = Append(probes, ProbeEntry(p, "range", r))
               /\ sockets' = SocketsAfterProbe(sockets, p, portState)
               /\ UNCHANGED log_error
               /\ IF r.exc # "none"
                  THEN /\ pc' = "done"
                       /\ outcome' = "raise"
                       /\ raised' = r.exc
                       /\ UNCHANGED <<i, result>>
                  ELSE IF r.ret
                  THEN /\ pc' = "done"
                       /\ outcome' = "return"
                       /\ result' = Some(p)
                       /\ UNCHANGED <<i, raised>>
                  ELSE /\ i' = i + 1
                       /\ UNCHANGED <<pc, result, outcome, raised>>
    /\ UNCHANGED otherVars
    /\ UNCHANGED <<start_port, end_port, portState, op, preferred_port, port,
                   ports, connections, enum_raises, processes>>

----------------------------------------------------------------------------
(* find_available_port called by two callers at once, against a port state
   that changes between the probes.  The second call runs the same code on
   the same allocator with locals of its own, held in the record peer. *)

\* the range bounds of the allocators whose races are explored: the two
\* highest port numbers and the first invalid one
RaceArgs == {PortLimit - 1, PortLimit, PortLimit + 1}

\* PortDiscovery(start_port, end_port), for the races
InitRace ==
    /\ \E s \in RaceArgs, e \in RaceArgs :
          /\ start_port = s
          /\ end_port = e
    /\ portState = [p \in ValidPorts |-> "free"]
    /\ sockets = <<>>
    /\ Idle
    /\ peer = PeerIdle
    /\ MainInit
    /\ AppInit

\* another process binds or releases a port, at any moment
EnvRacePort ==
    /\ \E p \in ValidPorts, s \in {"free", "in_use"} :
          /\ portState[p] # s
          /\ portState' = [portState EXCEPT ![p] = s]
    /\ UNCHANGED otherVars
    /\ UNCHANGED <<sockets, start_port, end_port, pc, op, preferred_port, port,
                   ports, i, probes, connections, enum_raises, processes, result,
                   outcome, raised, log_error>>

\* the locals of a call after its probe of p: returned or raised where the
\* code returns or raises, unchanged in pc where the code goes on
PeerAfterProbe(c, p) ==
    LET r == IsPortAvailable(p, portState)
    IN IF r.exc # "none"
       THEN [c EXCEPT !.pc = "done", !.outcome = "raise", !.raised = r.exc]
       ELSE IF r.ret
       THEN [c EXCEPT !.pc = "done", !.outcome = "return", !.result = Some(p)]
       ELSE c

\* the second caller's argument: no preferred port, or the highest port
PeerPreferredArgs == {None, Some(PortLimit)}

PeerCallFindAvailablePort ==
    /\ peer.pc = "idle"
    /\ \E pref \in PeerPreferredArgs :
          peer' = [peer EXCEPT !.pc = "preferred", !.preferred_port = pref]
    /\ UNCHANGED <<allocVars, mainVars, appVars>>

\* if preferred_port and self.is_port_available(preferred_port): return it
PeerTryPreferred ==
    /\ peer.pc = "preferred"
    /\ IF ~Truthy(peer.preferred_port)
       THEN /\ peer' = [peer EXCEPT !.pc = "shuffle"]
            /\ UNCHANGED sockets
       ELSE LET c == PeerAfterProbe(peer, peer.preferred_port[1])
            IN /\ peer' = IF c.pc = "done" THEN c ELSE [c EXCEPT !.pc = "shuffle"]
               /\ sockets' = SocketsAfterProbe(sockets, peer.preferred_port[1], portState)
    /\ UNCHANGED <<mainVars, appVars>>
    /\ UNCHANGED <<start_port, end_port, portState, pc, op, preferred_port, port,
                   ports, i, probes, connections, enum_raises, processes, result,
                   outcome, raised, log_error>>

\* PeerShufflePorts where the list is kept on the allocator: the second call
\* shuffles the list the first call is scanning
PeerShufflePorts_SharedList ==
    /\ peer.pc = "shuffle"
    /\ \E shuffled \in Shuffles(RangeList(start_port, end_port)) :
          /\ peer' = [peer EXCEPT !.pc = "scan", !.ports = shuffled, !.i = 1]
          /\ ports' = shuffled
    /\ UNCHANGED <<mainVars, appVars>>
    /\ UNCHANGED <<start_port, end_port, portState, pc, op, preferred_port, port,
                   i, probes, connections, enum_raises, processes, result,
                   outcome, raised, log_error, sockets>>

\* ports = list(range(...)); random.shuffle(ports)
PeerShufflePorts ==
    /\ peer.pc = "shuffle"
    /\ \E shuffled \in Shuffles(RangeList(start_port, end_port)) :
          peer' = [peer EXCEPT !.pc = "scan", !.ports = shuffled, !.i = 1]
    /\ UNCHANGED <<allocVars, mainVars, appVars>>

\* one turn of "for port in ports", or the end of the loop: return None
PeerScanStep ==
    /\ peer.pc = "scan"
    /\ IF peer.i > Len(peer.ports)
       THEN /\ peer' = [peer EXCEPT !.pc = "done", !.outcome = "return", !.result = None]
            /\ UNCHANGED sockets
       ELSE LET c == PeerAfterProbe(peer, peer.ports[peer.i])
            IN /\ peer' = IF c.pc = "done" THEN c ELSE [c EXCEPT !.i = peer.i + 1]
               /\ sockets' = SocketsAfterProbe(sockets, peer.ports[peer.i], portState)
    /\ UNCHANGED <<mainVars, appVars>>
    /\ UNCHANGED <<start_port, end_port, portState, pc, op, preferred_port, port,
                   ports, i, probes, connections, enum_raises, processes, result,
                   outcome, raised, log_error>>

\* the second caller takes its call's result
PeerReturnToCaller ==
    /\ peer.pc = "done"
    /\ peer' = PeerIdle
    /\ UNCHANGED <<allocVars, mainVars, appVars>>

----------------------------------------------------------------------------
(* get_process_using_port *)

\* the record built from a resolved process
ProcessRecord(conn) ==
    [pid |-> conn.pid,
     name |-> ProcessInfo(conn.pid).name,
     cmdline |-> ProcessInfo(conn.pid).cmdline,
     status |-> ProcessInfo(conn.pid).status]

\* the record returned when the process cannot be resolved
UnknownRecord(conn) ==
    [pid |-> conn.pid, name |-> "Unknown", cmdline |-> <<>>, status |-> "Unknown"]

\* the inner try: psutil.Process(conn.pid) and its getters, and the handler
\* of NoSuchProcess and AccessDenied.  exc is the exception that leaves it.
ResolveProcess(conn, procs) ==
    LET st == procs[conn.pid]
    IN IF st = "ok" THEN [value |-> Some(ProcessRecord(conn)), exc |-> "none"]
       ELSE IF Catches(ProcessHandler, st)
       THEN [value |-> Some(UnknownRecord(conn)), exc |-> "none"]
       ELSE [value |-> None, exc |-> st]

\* ScanForPort with the comparison of the ports inverted
RECURSIVE ScanForPort_Inverted(_, _, _, _)
ScanForPort_Inverted(conns, k, p, procs) ==
    IF k > Len(conns) THEN [value |-> None, exc |-> "none"]
    ELSE IF conns[k].laddr = None THEN [value |-> None, exc |-> "AttributeError"]
    ELSE IF conns[k].laddr[1] # p THEN ResolveProcess(conns[k], procs)
    ELSE ScanForPort_Inverted(conns, k + 1, p, procs)

\* the loop over the connection table from entry k on: the value returned
\* from inside the loop (None when the loop ends), or the exception raised.
\* conn.laddr.port raises AttributeError on an empty laddr.
RECURSIVE ScanForPort(_, _, _, _)
ScanForPort(conns, k, p, procs) ==
    IF k > Len(conns) THEN [value |-> None, exc |-> "none"]
    ELSE IF conns[k].laddr = None THEN [value |-> None, exc |-> "AttributeError"]
    ELSE IF conns[k].laddr[1] = p THEN ResolveProcess(conns[k], procs)
    ELSE ScanForPort(conns, k + 1, p, procs)

\* the whole of get_process_using_port
GetProcessUsingPort(p, conns, enumRaises, procs) ==
    LET body == IF enumRaises THEN [value |-> None, exc |-> "AccessDenied"]
                ELSE ScanForPort(conns, 1, p, procs)
    IN IF body.exc = "none"
       THEN [result |-> body.value, outcome |-> "return", raised |-> "none", log_error |-> FALSE]
       ELSE IF Catches(EnumerationHandler, body.exc)
       THEN [result |-> None, outcome |-> "return", raised |-> "none", log_error |-> TRUE]
       ELSE [result |-> None, outcome |-> "raise", raised |-> body.exc, log_error |-> FALSE]

CallGetProcessUsingPort ==
    /\ pc = "idle"
    /\ \E p \in ConnPorts, er \in BOOLEAN, procs \in [Pids -> ProcessStates] :
       \E conns \in (IF er THEN {<<>>} ELSE ConnTables) :
          LET r == GetProcessUsingPort(p, conns, er, procs)
          IN /\ port' = p
             /\ connections' = conns
             /\ enum_raises' = er
             /\ processes' = procs
             /\ result' = r.result
             /\ outcome' = r.outcome
             /\ raised' = r.raised
             /\ log_error' = r.log_error
    /\ op' = "get_process_using_port"
    /\ pc' = "done"
    /\ UNCHANGED otherVars
    /\ UNCHANGED <<sockets, start_port, end_port, portState, preferred_port, ports, i, probes>>

----------------------------------------------------------------------------
(* find_ports_in_use *)

\* set(ports_in_use)
PySet(seq) == {seq[k] : k \in 1..Len(seq)}

\* list(a set): its elements, each once, in an order of Python's choosing
RECURSIVE PyList(_)
PyList(S) ==
    IF S = {} THEN <<>>
    ELSE LET x == CHOOSE y \in S : \A z \in S : y >= z
         IN <<x>> \o PyList(S \ {x})

\* sorted(a list): insertion of each element into the sorted rest
RECURSIVE Insert(_, _)
Insert(x, sorted) ==
    IF sorted = <<>> THEN <<x>>
    ELSE IF x <= Head(sorted) THEN <<x>> \o sorted
    ELSE <<Head(sorted)>> \o Insert(x, Tail(sorted))

RECURSIVE PySorted(_)
PySorted(seq) ==
    IF seq = <<>> THEN <<>> ELSE Insert(Head(seq), PySorted(Tail(seq)))

\* the loop over the connection table from entry k on: ports_in_use when
\* it stops, and the exception that stopped it
RECURSIVE CollectPorts(_, _, _, _, _)
CollectPorts(conns, k, acc, s, e) ==
    IF k > Len(conns) THEN [acc |-> acc, exc |-> "none"]
    ELSE IF conns[k].laddr = None THEN [acc |-> acc, exc |-> "AttributeError"]
    ELSE IF s <= conns[k].laddr[1] /\ conns[k].laddr[1] <= e
    THEN CollectPorts(conns, k + 1, Append(acc, conns[k].laddr[1]), s, e)
    ELSE CollectPorts(conns, k + 1, acc, s, e)

\* the return value with set() forgotten
SortedUnique_NoSet(acc) == PySorted(acc)

\* return sorted(list(set(ports_in_use)))
SortedUnique(acc) == PySorted(PyList(PySet(acc)))

\* the whole of find_ports_in_use
FindPortsInUse(conns, enumRaises, s, e) ==
    LET body == IF enumRaises THEN [acc |-> <<>>, exc |-> "AccessDenied"]
                ELSE CollectPorts(conns, 1, <<>>, s, e)
    IN IF body.exc = "none"
       THEN [result |-> SortedUnique(body.acc), outcome |-> "return",
             raised |-> "none", log_error |-> FALSE]
       ELSE IF Catches(EnumerationHandler, body.exc)
       THEN [result |-> SortedUnique(body.acc), outcome |-> "return",
             raised |-> "none", log_error |-> TRUE]
       ELSE [result |-> <<>>, outcome |-> "raise", raised |-> body.exc,
             log_error |-> FALSE]

CallFindPortsInUse ==
    /\ pc = "idle"
    /\ \E er \in BOOLEAN :
       \E conns \in (IF er THEN {<<>>} ELSE ConnTables) :
          LET r == FindPortsInUse(conns, er, start_port, end_port)
          IN /\ connections' = conns
             /\ enum_raises' = er
             /\ result' = r.result
             /\ outcome' = r.outcome
             /\ raised' = r.raised
             /\ log_error' = r.log_error
    /\ op' = "find_ports_in_use"
    /\ pc' = "done"
    /\ UNCHANGED otherVars
    /\ UNCHANGED <<sockets, start_port, end_port, portState, preferred_port, port, ports,
                   i, probes, processes>>

----------------------------------------------------------------------------
(* main(): port discovery, the port file, the server run and the cleanup *)

\* str(port): the decimal digits of a non-negative integer
RECURSIVE Str(_)
Str(n) == IF n < 10 THEN <<n>> ELSE Append(Str(n \div 10), n % 10)

\* how uvicorn.run can end: it returns, or one of these leaves it
ServerEnds == {"return", "KeyboardInterrupt", "RuntimeError", "SystemExit"}

\* port_discovery = PortDiscovery(...); port_discovery.find_available_port(args.port)
MainDiscover ==
    /\ main_pc = "start"
    /\ pc = "idle"
    /\ \E pref \in PreferredArgs : preferred_port' = pref
    /\ op' = "find_available_port"
    /\ pc' = "preferred"
    /\ main_pc' = "discovering"
    /\ UNCHANGED <<port_file, server_port, server_end, exit_code, peer, appVars>>
    /\ UNCHANGED <<start_port, end_port, portState, port, ports, i, probes,
                   connections, enum_raises, processes, result, outcome, raised,
                   log_error, sockets>>

\* find_available_port has ended: an exception of it ends the process, "if
\* not port" ends it with sys.exit(1), else app_state["port"] = port
MainAfterDiscovery ==
    /\ main_pc = "discovering"
    /\ op = "find_available_port" /\ pc = "done"
    /\ IF outcome = "raise" \/ result = None \/ result = Some(0)
       THEN /\ main_pc' = "exited"
            /\ exit_code' = Some(1)
            /\ UNCHANGED app_state
       ELSE /\ main_pc' = "write"
            /\ app_state' = [app_state EXCEPT !.port = result]
            /\ UNCHANGED exit_code
    /\ UNCHANGED <<port_file, server_port, server_end, peer, allocVars, request,
                   shutdown, signal_sent, health_check>>

\* with open("sidecar_port.txt", "w") as f: f.write(str(port)); an OSError
\* of open ends the process
MainWritePortFile ==
    /\ main_pc = "write"
    /\ \E opened \in BOOLEAN :
          IF opened
          THEN /\ port_file' = Some(Str(result[1]))
               /\ main_pc' = "run"
               /\ UNCHANGED exit_code
          ELSE /\ main_pc' = "exited"
               /\ exit_code' = Some(1)
               /\ UNCHANGED port_file
    /\ UNCHANGED <<server_port, server_end, peer, appVars, allocVars>>

\* uvicorn.run(app, host=args.host, port=port, ...) is entered
MainRunServer ==
    /\ main_pc = "run"
    /\ server_port' = result
    /\ main_pc' = "serving"
    /\ UNCHANGED <<port_file, server_end, exit_code, peer, appVars, allocVars>>

\* someone else removes the port file while the server runs
EnvRemovePortFile ==
    /\ main_pc = "serving"
    /\ port_file # None
    /\ port_file' = None
    /\ UNCHANGED <<main_pc, server_port, server_end, exit_code, peer, appVars, allocVars>>

\* uvicorn.run returns or raises
MainServerEnds ==
    /\ main_pc = "serving"
    /\ \E how \in ServerEnds : server_end' = how
    /\ main_pc' = "cleanup"
    /\ UNCHANGED <<port_file, server_port, exit_code, peer, appVars, allocVars>>

\* os.remove("sidecar_port.txt"): the file gone, or FileNotFoundError
RemovePortFile(file) ==
    IF file = None THEN [file |-> None, exc |-> "FileNotFoundError"]
    ELSE [file |-> None, exc |-> "none"]

\* the exit code after the except clauses: 0 after a return and after
\* KeyboardInterrupt, sys.exit(1) after an Exception; any other exception
\* leaves main (uvicorn's own sys.exit(3) on a failed startup)
ExitCodeAfterRun(how) ==
    IF how = "return" \/ Catches({"KeyboardInterrupt"}, how) THEN 0
    ELSE IF Catches({"Exception"}, how) THEN 1
    ELSE 3

\* MainCleanup with the removal after the try statement and no finally: it is
\* done only when uvicorn.run returned
MainCleanup_OnlyAfterReturn ==
    /\ main_pc = "cleanup"
    /\ port_file' = (IF server_end = "return" THEN None ELSE port_file)
    /\ exit_code' = Some(ExitCodeAfterRun(server_end))
    /\ main_pc' = "exited"
    /\ UNCHANGED <<server_port, server_end, peer, appVars, allocVars>>

\* the except clauses, then finally: os.remove, FileNotFoundError passed over
MainCleanup ==
    /\ main_pc = "cleanup"
    /\ LET removed == RemovePortFile(port_file)
       IN /\ port_file' = removed.file
          /\ exit_code' = IF removed.exc = "none" \/ Catches({"FileNotFoundError"}, removed.exc)
                          THEN Some(ExitCodeAfterRun(server_end))
                          ELSE Some(1)
    /\ main_pc' = "exited"
    /\ UNCHANGED <<server_port, server_end, peer, appVars, allocVars>>

----------------------------------------------------------------------------
(* A request through the application: track_requests around the routes, and
   around both the handler registered for Exception, which Starlette runs in
   its outermost (server error) middleware *)

\* what call_next(request) gives the middleware: a response, which may be the
\* one made from an HTTPException or a validation error, or the exception the
\* route raised and no inner handler took
CallNextOutcomes ==
    {[status |-> Some(200), exc |-> "none"],
     [status |-> Some(404), exc |-> "none"],
     [status |-> Some(500), exc |-> "none"],
     [status |-> None, exc |-> "RuntimeError"]}

\* track_requests up to call_next: app_state["request_count"] += 1
TrackRequestsEnter ==
    /\ request.stage = "none"
    /\ app_state.request_count < MaxRequests
    /\ app_state' = [app_state EXCEPT !.request_count = @ + 1]
    /\ request' = [stage |-> "call_next", status |-> None, exc |-> "none",
                   errors_before |-> app_state.error_count]
    /\ UNCHANGED <<allocVars, peer, mainVars, shutdown, signal_sent, health_check>>

\* response = await call_next(request)
CallNext ==
    /\ request.stage = "call_next"
    /\ \E o \in CallNextOutcomes :
          request' = [request EXCEPT !.stage = "after", !.status = o.status, !.exc = o.exc]
    /\ UNCHANGED <<app_state, allocVars, peer, mainVars, shutdown, signal_sent, health_check>>

\* track_requests after call_next: the status check, or the except clause
\* that counts the error and raises again
TrackRequestsLeave ==
    /\ request.stage = "after"
    /\ IF request.exc = "none"
       THEN /\ app_state' = [app_state EXCEPT !.error_count =
                                 IF request.status[1] >= 400 THEN @ + 1 ELSE @]
            /\ request' = [request EXCEPT !.stage = "sent"]
       ELSE IF Catches({"Exception"}, request.exc)
       THEN /\ app_state' = [app_state EXCEPT !.error_count = @ + 1]
            /\ request' = [request EXCEPT !.stage = "raised"]
       ELSE /\ request' = [request EXCEPT !.stage = "raised"]
            /\ UNCHANGED app_state
    /\ UNCHANGED <<allocVars, peer, mainVars, shutdown, signal_sent, health_check>>

\* global_exception_handler: counts the error and answers 500
GlobalExceptionHandler ==
    /\ request.stage = "raised"
    /\ Catches({"Exception"}, request.exc)
    /\ app_state' = [app_state EXCEPT !.error_count = @ + 1]
    /\ request' = [request EXCEPT !.stage = "sent", !.status = Some(500)]
    /\ UNCHANGED <<allocVars, peer, mainVars, shutdown, signal_sent, health_check>>

\* the response has been sent
RequestDone ==
    /\ request.stage = "sent"
    /\ request' = NoRequest
    /\ UNCHANGED <<app_state, allocVars, peer, mainVars, shutdown, signal_sent, health_check>>

----------------------------------------------------------------------------
(* POST /shutdown and its background tasks *)

\* the values of ShutdownRequest.delay_seconds, an Optional[int]: null, or
\* an integer
DelayValues == {None} \cup {Some(d) : d \in (-1)..MaxDelay}

\* shutdown_request.delay_seconds > 0: the value, or the TypeError of
\* comparing None with an int
DelayIsPositive(delay) ==
    IF delay = None THEN [value |-> FALSE, exc |-> "TypeError"]
    ELSE [value |-> delay[1] > 0, exc |-> "none"]

\* shutdown_service: schedules the background task and answers
ShutdownService ==
    /\ shutdown.stage = "none"
    /\ \E delay \in DelayValues :
          LET positive == DelayIsPositive(delay)
          IN shutdown' =
                IF positive.exc # "none"
                THEN [shutdown EXCEPT !.stage = "answered", !.delay_seconds = delay,
                                      !.exc = positive.exc]
                ELSE [shutdown EXCEPT
                         !.stage = "answered", !.delay_seconds = delay,
                         !.task = IF positive.value THEN "delayed_shutdown"
                                  ELSE "immediate_shutdown",
                         !.response = Some([message |-> "Shutdown initiated",
                                            delay_seconds |-> delay])]
    /\ UNCHANGED <<app_state, request, signal_sent, health_check, allocVars, peer, mainVars>>

\* a second passes while delayed_shutdown sleeps
Tick ==
    /\ shutdown.task = "delayed_shutdown"
    /\ shutdown.elapsed < shutdown.delay_seconds[1]
    /\ shutdown' = [shutdown EXCEPT !.elapsed = @ + 1]
    /\ UNCHANGED <<app_state, request, signal_sent, health_check, allocVars, peer, mainVars>>

\* immediate_shutdown: app_state["shutdown_requested"] = True, then SIGTERM
\* to the process itself
ImmediateShutdown ==
    /\ shutdown.task = "immediate_shutdown"
    /\ app_state' = [app_state EXCEPT !.shutdown_requested = TRUE]
    /\ signal_sent' = TRUE
    /\ shutdown' = [shutdown EXCEPT !.task = "done"]
    /\ UNCHANGED <<request, health_check, allocVars, peer, mainVars>>

\* delayed_shutdown: await asyncio.sleep(delay_seconds) has ended, then
\* immediate_shutdown
DelayedShutdown ==
    /\ shutdown.task = "delayed_shutdown"
    /\ shutdown.elapsed >= shutdown.delay_seconds[1]
    /\ shutdown' = [shutdown EXCEPT !.task = "immediate_shutdown"]
    /\ UNCHANGED <<app_state, request, signal_sent, health_check, allocVars, peer, mainVars>>

----------------------------------------------------------------------------
(* The registry of database connections and GET /health/database.
   app_state["database_connections"] is a dict, kept as CPython keeps it:
   the entries in insertion order, a deleted entry staying in place as a dead
   one.  An iterator over it holds its position, the dict's size when it was
   made and the number of entries it still expects. *)

\* the connection names check_database_health derives from the configs
ConnectionNames == {"qdrant_a", "qdrant_b"}

DictLive(d) == {k \in 1..Len(d) : d[k].live}

\* len(d)
DictUsed(d) == Cardinality(DictLive(d))

\* key in d
DictHas(d, key) == \E k \in DictLive(d) : d[k].key = key

DictIndex(d, key) == CHOOSE k \in DictLive(d) : d[k].key = key

\* d[key] = value: in place for a key of d, else a new entry at the end
DictSet(d, key, healthy) ==
    IF DictHas(d, key)
    THEN [d EXCEPT ![DictIndex(d, key)].last_healthy = healthy]
    ELSE Append(d, [key |-> key, live |-> TRUE, last_healthy |-> healthy])

\* del d[key]
DictDel(d, key) == [d EXCEPT ![DictIndex(d, key)].live = FALSE]

\* next() on the iterator of d.items(): RuntimeError when the size of d
\* changed since the iterator was made or an entry turns up that it does not
\* expect, StopIteration at the end, else the index of the next entry
DictIterNext(d, pos, used, len) ==
    LET rest == {k \in DictLive(d) : k >= pos}
    IN IF used # DictUsed(d) THEN [exc |-> "RuntimeError", index |-> 0]
       ELSE IF rest = {} THEN [exc |-> "StopIteration", index |-> 0]
       ELSE IF len = 0 THEN [exc |-> "RuntimeError", index |-> 0]
       ELSE [exc |-> "none", index |-> CHOOSE k \in rest : \A m \in rest : k <= m]

\* the counts of DatabaseHealthSummary
Summary(checks) ==
    LET healthy_count == Cardinality({k \in 1..Len(checks) : checks[k].is_healthy})
        unhealthy_count == Len(checks) - healthy_count
    IN [overall_healthy |-> unhealthy_count = 0,
        total_connections |-> Len(checks),
        healthy_connections |-> healthy_count,
        unhealthy_connections |-> unhealthy_count]

\* another request may run while no health check runs or while the health
\* check is suspended in an await
OtherRequestMayRun == health_check.stage \in {"none", "awaiting"}

\* register_database_connection: from the end of its own health check on
RegisterDatabaseConnection ==
    /\ OtherRequestMayRun
    /\ \E name \in ConnectionNames, healthy \in BOOLEAN :
          /\ DictHas(app_state.database_connections, name)
                \/ Len(app_state.database_connections) < MaxRequests
          /\ app_state' = [app_state EXCEPT !.database_connections =
                               DictSet(@, name, healthy)]
    /\ health_check' = [health_check EXCEPT
                            !.interleaved = @ \/ health_check.stage = "awaiting"]
    /\ UNCHANGED <<request, shutdown, signal_sent, allocVars, peer, mainVars>>

\* unregister_database_connection of a registered connection
UnregisterDatabaseConnection ==
    /\ OtherRequestMayRun
    /\ \E name \in ConnectionNames :
          /\ DictHas(app_state.database_connections, name)
          /\ app_state' = [app_state EXCEPT !.database_connections = DictDel(@, name)]
    /\ health_check' = [health_check EXCEPT
                            !.interleaved = @ \/ health_check.stage = "awaiting"]
    /\ UNCHANGED <<request, shutdown, signal_sent, allocVars, peer, mainVars>>

\* check_all_database_health up to the for statement: the summary of an
\* empty registry, or the iterator over the registry
CheckAllDatabaseHealth ==
    /\ health_check.stage = "none"
    /\ IF DictUsed(app_state.database_connections) = 0
       THEN health_check' = [health_check EXCEPT
                                !.stage = "done", !.outcome = "return",
                                !.summary = Some(Summary(<<>>))]
       ELSE health_check' = [health_check EXCEPT
                                !.stage = "next", !.pos = 1,
                                !.di_used = DictUsed(app_state.database_connections),
                                !.len = DictUsed(app_state.database_connections)]
    /\ UNCHANGED <<app_state, request, shutdown, signal_sent, allocVars, peer, mainVars>>

\* the for statement takes the next item: the loop body up to its await, the
\* end of the loop and the summary, or the RuntimeError of the iterator,
\* which no except clause of the function encloses
CheckAllNext ==
    /\ health_check.stage = "next"
    /\ LET nxt == DictIterNext(app_state.database_connections, health_check.pos,
                                health_check.di_used, health_check.len)
       IN IF nxt.exc = "none"
          THEN /\ health_check' = [health_check EXCEPT
                      !.stage = "awaiting", !.pos = nxt.index + 1, !.len = @ - 1,
                      !.connection_name = app_state.database_connections[nxt.index].key]
               /\ UNCHANGED app_state
          ELSE IF nxt.exc = "StopIteration"
          THEN /\ health_check' = [health_check EXCEPT
                      !.stage = "done", !.outcome = "return",
                      !.summary = Some(Summary(health_check.health_checks))]
               /\ app_state' = [app_state EXCEPT !.last_database_check = Some("now")]
          ELSE /\ health_check' = [health_check EXCEPT
                      !.stage = "done", !.outcome = "raise", !.raised = nxt.exc]
               /\ UNCHANGED app_state
    /\ UNCHANGED <<request, shutdown, signal_sent, allocVars, peer, mainVars>>

\* await check_database_health(config) ends: the result is appended and
\* stored in the registry; the KeyError of a connection unregistered
\* meanwhile is taken by except Exception, which appends a failed check
CheckAllResume ==
    /\ health_check.stage = "awaiting"
    /\ \E healthy \in BOOLEAN :
          LET name == health_check.connection_name
              appended == Append(health_check.health_checks,
                                 [connection_name |-> name, is_healthy |-> healthy])
          IN IF DictHas(app_state.database_connections, name)
             THEN /\ app_state' = [app_state EXCEPT !.database_connections =
                                       DictSet(@, name, healthy)]
                  /\ health_check' = [health_check EXCEPT
                                          !.stage = "next", !.health_checks = appended]
             ELSE /\ Catches({"Exception"}, "KeyError")
                  /\ health_check' = [health_check EXCEPT
                         !.stage = "next",
                         !.health_checks = Append(appended,
                             [connection_name |-> name, is_healthy |-> FALSE])]
                  /\ UNCHANGED app_state
    /\ UNCHANGED <<request, shutdown, signal_sent, allocVars, peer, mainVars>>

\* the answer of GET /health/database has been sent
HealthCheckAnswered ==
    /\ health_check.stage = "done"
    /\ health_check' = NoHealthCheck
    /\ UNCHANGED <<app_state, request, shutdown, signal_sent, allocVars, peer, mainVars>>

----------------------------------------------------------------------------
(* Specifications *)

NextHealth ==
    \/ RegisterDatabaseConnection
    \/ UnregisterDatabaseConnection
    \/ CheckAllDatabaseHealth
    \/ CheckAllNext
    \/ CheckAllResume
    \/ HealthCheckAnswered

\* health checks of the registry while connections are registered and
\* unregistered
SpecHealth == Init /\ [][NextHealth]_vars

NextShutdown ==
    \/ ShutdownService
    \/ Tick
    \/ DelayedShutdown
    \/ ImmediateShutdown

\* one POST /shutdown and what follows it
SpecShutdown == Init /\ [][NextShutdown]_vars

\* the same, where time passes and scheduled background tasks run
FairSpecShutdown ==
    SpecShutdown /\ WF_vars(Tick) /\ WF_vars(DelayedShutdown) /\ WF_vars(ImmediateShutdown)

NextRequests ==
    \/ TrackRequestsEnter
    \/ CallNext
    \/ TrackRequestsLeave
    \/ GlobalExceptionHandler
    \/ RequestDone

\* requests served one after the other
SpecRequests == Init /\ [][NextRequests]_vars

NextMain ==
    \/ EnvChangePort
    \/ MainDiscover
    \/ TryPreferred
    \/ ShufflePorts
    \/ ScanStep
    \/ MainAfterDiscovery
    \/ MainWritePortFile
    \/ MainRunServer
    \/ EnvRemovePortFile
    \/ MainServerEnds
    \/ MainCleanup

\* the sidecar process from its start to its exit
SpecMain == Init /\ [][NextMain]_vars

NextAlloc ==
    \/ EnvChangePort
    \/ CallIsPortAvailable
    \/ CallIsPortAvailableAgain
    \/ CallFindAvailablePort
    \/ TryPreferred
    \/ ShufflePorts
    \/ ScanStep
    \/ ReturnToCaller

\* the allocation path: probes and scans against changing port state
SpecAlloc == Init /\ [][NextAlloc]_vars

NextDiag ==
    \/ CallGetProcessUsingPort
    \/ CallFindPortsInUse
    \/ ReturnToCaller

\* the diagnostic path: queries of the connection and process tables
SpecDiag == Init /\ [][NextDiag]_vars

NextRace ==
    \/ EnvRacePort
    \/ CallFindAvailablePort
    \/ TryPreferred
    \/ ShufflePorts
    \/ ScanStep
    \/ ReturnToCaller
    \/ PeerCallFindAvailablePort
    \/ PeerTryPreferred
    \/ PeerShufflePorts
    \/ PeerScanStep
    \/ PeerReturnToCaller

\* two concurrent calls of find_available_port while other processes bind and
\* release ports between their probes
SpecRace == InitRace /\ [][NextRace]_vars

Next ==
    \/ EnvChangePort
    \/ CallIsPortAvailable
    \/ CallIsPortAvailableAgain
    \/ CallFindAvailablePort
    \/ TryPreferred
    \/ ShufflePorts
    \/ ScanStep
    \/ CallGetProcessUsingPort
    \/ CallFindPortsInUse
    \/ ReturnToCaller

Spec == Init /\ [][Next]_vars

----------------------------------------------------------------------------
(* Properties of find_available_port and is_port_available *)

\* a finished call of find_available_port
FindDone == op = "find_available_port" /\ pc = "done"

\* the probe of p would report it available now
Available(p) == IsPortAvailable(p, portState).ret

ProbesOfKind(kind) == {k \in 1..Len(probes) : probes[k].kind = kind}

\* C1: when the preferred port is available, find_available_port returns
\* exactly the preferred port, and its only probe is the one of that port.
C1_PreferredAvailableReturned ==
    (/\ op = "find_available_port"
     /\ pc \in {"shuffle", "scan", "done"}
     /\ Truthy(preferred_port)
     /\ Available(preferred_port[1]))
    => /\ pc = "done"
       /\ outcome = "return"
       /\ result = preferred_port
       /\ probes = <<[port |-> preferred_port[1], kind |-> "preferred", res |-> "True"]>>

\* a call returned an available preferred port that lies outside the range
C1_Witness ==
    /\ FindDone
    /\ Truthy(preferred_port)
    /\ Available(preferred_port[1])
    /\ start_port <= end_port
    /\ preferred_port[1] \notin start_port..end_port
    /\ \E p \in start_port..end_port : Available(p)
    /\ result = preferred_port
    /\ Len(probes) = 1

\* C2: with start <= end and a free port in the range, whatever the preferred
\* port, find_available_port returns a port of [start, end] whose probe in
\* this call reported it available.
C2_ReturnsFreePortInRange ==
    (/\ FindDone
     /\ start_port <= end_port
     /\ \E p \in start_port..end_port : Available(p))
    => /\ outcome = "return"
       /\ result # None
       /\ start_port <= result[1] /\ result[1] <= end_port
       /\ \E k \in 1..Len(probes) : probes[k].port = result[1] /\ probes[k].res = "True"

\* C3: when no port of [start, end] is available, and neither is the preferred
\* port if one is given, find_available_port returns None without raising,
\* after exactly end - start + 1 range probes plus one failed preferred probe
\* if a preferred port was given.
C3_ExhaustionReturnsNone ==
    (/\ FindDone
     /\ \A p \in start_port..end_port : ~Available(p)
     /\ preferred_port # None => ~Available(preferred_port[1]))
    => /\ outcome = "return"
       /\ result = None
       /\ Cardinality(ProbesOfKind("range")) = end_port - start_port + 1
       /\ Cardinality(ProbesOfKind("preferred")) = (IF preferred_port # None THEN 1 ELSE 0)
       /\ \A k \in 1..Len(probes) : probes[k].res = "False"

\* C4: no allocator with start_port > end_port exists.
C4_NoInvertedAllocator == start_port <= end_port

\* C5: is_port_available returns True exactly when the bind succeeds, False
\* on every bind failure, and never raises.
C5_ProbeNeverRaises ==
    (op = "is_port_available" /\ pc = "done")
    => /\ outcome = "return"
       /\ result = Some(Bind(port, portState) = "ok")

\* C10: a call of find_available_port makes at most range_size + 1 probes,
\* range_size = end_port - start_port + 1: at most one of the preferred port
\* and at most one of each port of the range.
C10_ProbeBudget ==
    FindDone
    => /\ Len(probes) <= (end_port - start_port + 1) + 1
       /\ Cardinality(ProbesOfKind("preferred")) <= 1
       /\ \A k \in ProbesOfKind("range") :
             /\ probes[k].port \in start_port..end_port
             /\ \A m \in ProbesOfKind("range") : probes[m].port = probes[k].port => m = k

\* every port number the call can probe is one socket.bind accepts
ProbedPortsValid ==
    /\ \A p \in start_port..end_port : p \in 0..PortLimit
    /\ preferred_port # None => preferred_port[1] \in 0..PortLimit

\* C3 and C10 where the constructor was given start <= end + 1 and no probed
\* port number is invalid: exhaustion returns None after one probe of each
\* port of the range, and the probe budget is kept.
ExhaustionWithinValidInputs ==
    (start_port <= end_port + 1 /\ ProbedPortsValid) => C3_ExhaustionReturnsNone

ProbeBudgetForOrderedRange ==
    start_port <= end_port + 1 => C10_ProbeBudget

\* C11: the range scan is not an ascending scan.  Whenever the call reaches
\* the scan, every available port of the range can be put first by the
\* shuffle, and a call whose shuffled list starts with an available port
\* returns that port: every free port of the range is a possible return
\* value, not only the lowest.
C11_EveryFreePortPossible ==
    /\ (op = "find_available_port" /\ pc = "shuffle")
       => \A p \in start_port..end_port :
             Available(p) => ENABLED (ShufflePorts /\ ports'[1] = p)
    /\ (op = "find_available_port" /\ pc = "scan" /\ i = 1
           /\ Len(ports) > 0 /\ Available(ports[1]))
       => ENABLED (ScanStep /\ outcome' = "return" /\ result' = Some(ports[1]))

\* a call without preferred port returned a free port of the range while a
\* lower port of the range was free
C11_Witness ==
    /\ FindDone
    /\ preferred_port = None
    /\ outcome = "return"
    /\ result # None
    /\ \E q \in start_port..end_port : q < result[1] /\ Available(q)

\* C12: a probe leaves no residue.  Between the allocator's steps no socket
\* it opened is open, whether the probes succeeded, failed or raised; and two
\* probes in immediate succession of a port nothing else holds both return
\* True.
C12_ProbeLeavesNoResidue ==
    /\ sockets = <<>>
    /\ (/\ op = "is_port_available" /\ pc = "done" /\ Len(probes) = 2
        /\ port \in ValidPorts /\ portState[port] = "free")
       => /\ probes[1].res = "True"
          /\ probes[2].res = "True"
          /\ result = Some(TRUE)

\* after some probe that failed, a free port was probed twice in succession
\* and no socket is open
C12_Witness ==
    /\ op = "is_port_available" /\ pc = "done" /\ Len(probes) = 2
    /\ port \in ValidPorts /\ portState[port] = "free"
    /\ \E q \in ValidPorts : portState[q] = "in_use"
    /\ result = Some(TRUE)
    /\ sockets = <<>>

\* the first port of a list whose probe reports it available (None if there
\* is none): what the range scan returns when every probe returns
RECURSIVE FirstAvailable(_)
FirstAvailable(seq) ==
    IF seq = <<>> THEN None
    ELSE IF Available(Head(seq)) THEN Some(Head(seq))
    ELSE FirstAvailable(Tail(seq))

\* C17: when preferred_port is None, 0, or a port whose probe does not
\* succeed, find_available_port falls through to the range scan and returns
\* the first port of the shuffled order whose probe succeeds, a result that
\* depends on the shuffle and the port state only, not on the preferred port;
\* the preferred port is probed only if it is given and not 0.
C17_UnavailablePreferredFallsThrough ==
    (FindDone /\ (~Truthy(preferred_port) \/ ~Available(preferred_port[1])))
    => /\ outcome = "return"
       /\ ports \in Shuffles(RangeList(start_port, end_port))
       /\ result = FirstAvailable(ports)
       /\ Cardinality(ProbesOfKind("preferred")) = (IF Truthy(preferred_port) THEN 1 ELSE 0)

RangeProbes == SelectSeq(probes, LAMBDA e : e.kind = "range")

\* C18: while other processes bind and release ports between the probes and
\* a second call runs at the same time, a call of find_available_port scans
\* its own shuffled list in a single pass; it returns a port only if its last
\* probe was of that port and succeeded, every earlier probe having failed,
\* and returns None only if every probe of the pass failed.
C18_RaceSafeSinglePass ==
    /\ (op = "find_available_port" /\ pc \in {"scan", "done"})
       => /\ Len(RangeProbes) <= Len(ports)
          /\ \A k \in 1..Len(RangeProbes) : RangeProbes[k].port = ports[k]
    /\ (FindDone /\ outcome = "return" /\ result # None)
       => /\ Len(probes) > 0
          /\ probes[Len(probes)].port = result[1]
          /\ probes[Len(probes)].res = "True"
          /\ \A k \in 1..(Len(probes) - 1) : probes[k].res = "False"
    /\ (FindDone /\ outcome = "return" /\ result = None)
       => /\ \A k \in 1..Len(probes) : probes[k].res = "False"
          /\ ports \in Shuffles(RangeList(start_port, end_port))
          /\ Len(RangeProbes) = Len(ports)

\* both concurrent calls returned the same port, the first one after a failed
\* probe of a port that has been released since, and the port they returned
\* has been taken by another process since
C18_Witness ==
    /\ FindDone /\ outcome = "return" /\ result # None
    /\ peer.pc = "done" /\ peer.result = result
    /\ Len(probes) = 2
    /\ probes[1].port \in ValidPorts /\ portState[probes[1].port] = "free"
    /\ portState[result[1]] = "in_use"

\* C17 where no probed port number is invalid
FallThroughWithinValidInputs ==
    ProbedPortsValid => C17_UnavailablePreferredFallsThrough

----------------------------------------------------------------------------
(* Properties of find_ports_in_use and get_process_using_port *)

PortsDone == op = "find_ports_in_use" /\ pc = "done"
ProcessDone == op = "get_process_using_port" /\ pc = "done"

StrictlyAscending(seq) == \A k \in 1..(Len(seq) - 1) : seq[k] < seq[k + 1]

\* the entries of the connection table: 1..Len(connections)
Entries == 1..Len(connections)

\* entry k has a local port, and it is p
HasPort(k, p) == connections[k].laddr # None /\ connections[k].laddr[1] = p

\* the first entry at which reading the local port fails (Len + 1 if none)
FirstBad ==
    IF \E k \in Entries : connections[k].laddr = None
    THEN CHOOSE k \in Entries :
            /\ connections[k].laddr = None
            /\ \A m \in 1..(k - 1) : connections[m].laddr # None
    ELSE Len(connections) + 1

\* the local ports within [start_port, end_port] of the entries before k
InRangeBefore(k) ==
    {connections[m].laddr[1] : m \in {n \in 1..(k - 1) :
        /\ connections[n].laddr # None
        /\ start_port <= connections[n].laddr[1]
        /\ connections[n].laddr[1] <= end_port}}

\* the connection table was listed and read without an exception
TableRead == ~enum_raises /\ FirstBad = Len(connections) + 1

\* the local ports within [start_port, end_port] of all entries of the table
InRangeOfTable == InRangeBefore(Len(connections) + 1)

FirstMatch ==
    IF \E k \in 1..(FirstBad - 1) : HasPort(k, port)
    THEN CHOOSE k \in 1..(FirstBad - 1) :
            HasPort(k, port) /\ \A m \in 1..(k - 1) : ~HasPort(m, port)
    ELSE 0

\* C7: get_process_using_port, when no exception reaches the enumeration
\* handler, returns None exactly if no entry has the port as local port; when
\* the first matching entry's process resolves, the record carries that
\* entry's pid and that process's name, command line and status.
C7_ProcessRecordExact ==
    (ProcessDone /\ ~log_error)
    => /\ outcome = "return"
       /\ result = None <=> ~(\E k \in Entries : HasPort(k, port))
       /\ (FirstMatch # 0 /\ processes[connections[FirstMatch].pid] = "ok")
          => result = Some([pid |-> connections[FirstMatch].pid,
                            name |-> ProcessInfo(connections[FirstMatch].pid).name,
                            cmdline |-> ProcessInfo(connections[FirstMatch].pid).cmdline,
                            status |-> ProcessInfo(connections[FirstMatch].pid).status])

\* two entries hold the port, of different pids, after an entry of another
\* port, and the record is that of the first of the two
C7_Witness ==
    /\ ProcessDone /\ ~log_error
    /\ Len(connections) = MaxConns
    /\ HasPort(MaxConns, port) /\ HasPort(MaxConns - 1, port)
    /\ connections[MaxConns].pid # connections[MaxConns - 1].pid
    /\ FirstMatch = MaxConns - 1
    /\ result # None
    /\ result[1].pid = connections[FirstMatch].pid
    /\ result[1].name # "Unknown"

\* C8: when an entry matches and its process has exited or access to it is
\* denied, get_process_using_port returns the record with the entry's pid and
\* every other field at its default; it neither raises nor returns None.
C8_PartialRecord ==
    (/\ ProcessDone
     /\ ~enum_raises
     /\ FirstMatch # 0
     /\ processes[connections[FirstMatch].pid] \in {"NoSuchProcess", "AccessDenied"})
    => /\ outcome = "return"
       /\ result = Some([pid |-> connections[FirstMatch].pid, name |-> "Unknown",
                         cmdline |-> <<>>, status |-> "Unknown"])

\* access to the first matching entry's process is denied while the other
\* process resolves, and the partial record is returned
C8_Witness ==
    /\ ProcessDone
    /\ FirstMatch # 0
    /\ processes[connections[FirstMatch].pid] = "AccessDenied"
    /\ \E pid \in Pids : processes[pid] = "ok"
    /\ result # None
    /\ result[1].name = "Unknown"
    /\ ~log_error

\* an exception was raised while the call listed the connections, read an
\* entry or resolved the process, other than the two the inner handler takes
EnumerationFailed ==
    \/ enum_raises
    \/ PortsDone /\ FirstBad <= Len(connections)
    \/ ProcessDone /\ FirstMatch = 0 /\ FirstBad <= Len(connections)
    \/ ProcessDone /\ FirstMatch # 0
         /\ processes[connections[FirstMatch].pid] \notin {"ok", "NoSuchProcess", "AccessDenied"}

\* C9: neither diagnostic operation ever raises; when the enumeration fails,
\* get_process_using_port returns None and find_ports_in_use returns the
\* in-range ports collected before the failure, each once, ascending.
C9_EnumerationFailureContained ==
    (PortsDone \/ ProcessDone)
    => /\ outcome = "return"
       /\ (ProcessDone /\ EnumerationFailed) => result = None
       /\ (PortsDone /\ EnumerationFailed)
          => /\ StrictlyAscending(result)
             /\ PySet(result) = InRangeBefore(IF enum_raises THEN 1 ELSE FirstBad)

\* find_ports_in_use met an unreadable entry after an in-range one, logged the
\* error and returned the port collected before it
C9_Witness ==
    /\ PortsDone
    /\ ~enum_raises
    /\ FirstBad = 2
    /\ log_error
    /\ result = <<connections[1].laddr[1]>>

----------------------------------------------------------------------------
(* Properties of main() *)

\* int(text): the number a reader of the port file gets from its content
RECURSIVE IntOf(_)
IntOf(ds) ==
    IF ds = <<>> THEN 0
    ELSE 10 * IntOf(SubSeq(ds, 1, Len(ds) - 1)) + ds[Len(ds)]

\* the port find_available_port returned to main
Discovered == op = "find_available_port" /\ pc = "done" /\ outcome = "return" /\ result # None

\* C14: the port file exists only after a port was discovered; while it
\* exists its content reads as the discovered port, which is the port the
\* server is given; when the process has exited the file is gone, whether
\* uvicorn.run returned or raised, with exit code 1 after a server error and
\* 0 after a return or KeyboardInterrupt.
C14_PortFileHandOff ==
    /\ port_file # None
       => /\ Discovered
          /\ main_pc \in {"run", "serving", "cleanup"}
          /\ IntOf(port_file[1]) = result[1]
    /\ server_port # None => Discovered /\ server_port = result
    /\ main_pc = "run" => port_file # None
    /\ main_pc = "exited"
       => /\ port_file = None
          /\ exit_code # None
          /\ server_end = "RuntimeError" => exit_code = Some(1)
          /\ server_end \in {"return", "KeyboardInterrupt"} => exit_code = Some(0)

\* the server was given the discovered port, failed, and the process exited
\* with code 1 and no port file
C14_Witness ==
    /\ main_pc = "exited"
    /\ server_port # None
    /\ server_end = "RuntimeError"
    /\ exit_code = Some(1)
    /\ port_file = None

----------------------------------------------------------------------------
(* Properties of the request tracking *)

\* the request was answered
RequestSent == request.stage = "sent"

\* the request's outcome is an error: a response of status >= 400, or an
\* exception no route handler took
IsErrorOutcome == request.exc # "none" \/ request.status[1] >= 400

\* C15: a request whose outcome is an error raises error_count by exactly 1,
\* a request answered with a status below 400 leaves it unchanged.
C15_ErrorCountedOnce ==
    RequestSent
    => app_state.error_count = request.errors_before + (IF IsErrorOutcome THEN 1 ELSE 0)

\* C15 for the requests call_next answers with a response
ErrorCountedOnceForResponses ==
    (RequestSent /\ request.exc = "none") => C15_ErrorCountedOnce

----------------------------------------------------------------------------
(* Properties of the shutdown protocol *)

ShutdownAnswered == shutdown.stage = "answered"

\* C16: POST /shutdown always answers "Shutdown initiated" with the
\* delay_seconds it was given; shutdown_requested is never True before a
\* shutdown was requested nor, for a delay above 0, before the delay has
\* elapsed; the termination signal is sent only with shutdown_requested True.
C16_ShutdownProtocol ==
    /\ ShutdownAnswered
       => shutdown.response = Some([message |-> "Shutdown initiated",
                                    delay_seconds |-> shutdown.delay_seconds])
    /\ app_state.shutdown_requested
       => /\ ShutdownAnswered
          /\ (shutdown.delay_seconds # None /\ shutdown.delay_seconds[1] > 0)
             => shutdown.elapsed >= shutdown.delay_seconds[1]
    /\ signal_sent => app_state.shutdown_requested

\* C16 for the requests whose delay_seconds is an integer
ShutdownProtocolForIntegerDelay ==
    (ShutdownAnswered => shutdown.delay_seconds # None) => C16_ShutdownProtocol

\* after an answered request with an integer delay the flag is set and the
\* signal sent, eventually
ShutdownEventually ==
    (ShutdownAnswered /\ shutdown.delay_seconds # None)
    ~> (app_state.shutdown_requested /\ signal_sent)

----------------------------------------------------------------------------
(* Properties of GET /health/database *)

HealthCheckDone == health_check.stage = "done"

\* C19: a health check of all connections, whatever is registered or
\* unregistered while it awaits, ends with a summary in which total =
\* healthy + unhealthy and overall_healthy holds exactly if unhealthy = 0; it
\* never ends with an exception.
C19_HealthCheckToleratesChanges ==
    HealthCheckDone
    => /\ health_check.outcome = "return"
       /\ health_check.summary # None
       /\ LET sum == health_check.summary[1]
          IN /\ sum.total_connections = sum.healthy_connections + sum.unhealthy_connections
             /\ sum.overall_healthy <=> sum.unhealthy_connections = 0

\* C19 for the health checks during whose awaits the registry is not changed,
\* with one check per registered connection
HealthCheckWithoutChanges ==
    (HealthCheckDone /\ ~health_check.interleaved)
    => /\ C19_HealthCheckToleratesChanges
       /\ health_check.summary[1].total_connections
             = DictUsed(app_state.database_connections)

====
